---- MODULE Spec2Model ----
(***************************************************************************)
(* kmoddep: kernel-module dependency resolution.                           *)
(*                                                                         *)
(* A model of src/src/kerman.rs (KernelInfo), src/src/lib.rs               *)
(* (get_kernel_infos) and src/src/modinfo.rs (lsmod).                      *)
(*                                                                         *)
(* Strings are sequences of one-character strings, so that every string    *)
(* operation of the code (ends_with, starts_with, contains, replace,       *)
(* split, split_once, rsplit_once, trim, parse) is computed on characters. *)
(* A HashMap is a function; its iteration order, which Rust's RandomState  *)
(* draws per map instance, is a separate sequence of its keys.             *)
(* A call that panics (unwrap on None, todo!()) ends with st = "panic", a  *)
(* call that overruns the stack with st = "overflow", process::exit(1)     *)
(* with st = "exit", an Err(..) result with st = "err".                    *)
(***************************************************************************)
EXTENDS Integers, Sequences, FiniteSets, TLC

VARIABLES
    fs,            \* <root>/lib/modules: version -> directory entry
    modinfo,       \* behaviour of the external /usr/sbin/modinfo
    proc_modules,  \* content of /proc/modules
    kinfo,         \* the KernelInfo the caller holds (None before new)
    keyorder,      \* iteration order of kinfo.deplist (HashMap)
    ret            \* outcome of the last call (None when consumed)

vars == <<fs, modinfo, proc_modules, kinfo, keyorder, ret>>

None == [st |-> "none"]

(***************************************************************************)
(* Bounds of the model.                                                    *)
(***************************************************************************)
\* number of modules of the generated acyclic descriptors
MaxMods == 3
\* stack depth (nested get_mod_dep frames) at which the stack is overrun
MaxDepth == 8
\* number of names in one get_deps_for request
MaxReq == 2
\* number of lines of /proc/modules
MaxLines == 2
\* number of version directories under <root>/lib/modules
MaxVersions == 2

(***************************************************************************)
(* String primitives (std::str).                                           *)
(***************************************************************************)
StartsWith(s, p) == Len(p) <= Len(s) /\ SubSeq(s, 1, Len(p)) = p

EndsWith(s, p) == Len(p) <= Len(s) /\ SubSeq(s, Len(s) - Len(p) + 1, Len(s)) = p

\* positions at which p occurs in s
Occurrences(s, p) ==
    {i \in 1..(Len(s) - Len(p) + 1) : SubSeq(s, i, i + Len(p) - 1) = p}

\* str::find: first position of p in s, 0 when absent
Find(s, p) ==
    LET occ == Occurrences(s, p)
    IN IF occ = {} THEN 0 ELSE CHOOSE i \in occ : \A j \in occ : i <= j

\* str::rfind: last position of p in s, 0 when absent
RFind(s, p) ==
    LET occ == Occurrences(s, p)
    IN IF occ = {} THEN 0 ELSE CHOOSE i \in occ : \A j \in occ : j <= i

Contains(s, p) == Occurrences(s, p) # {}

\* str::split_once(p): <<before, after>> around the first p, <<>> for None
SplitOnce(s, p) ==
    LET at == Find(s, p)
    IN IF at = 0 THEN <<>> ELSE <<SubSeq(s, 1, at - 1), SubSeq(s, at + Len(p), Len(s))>>

\* str::rsplit_once(p): <<before, after>> around the last p, <<>> for None
RSplitOnce(s, p) ==
    LET at == RFind(s, p)
    IN IF at = 0 THEN <<>> ELSE <<SubSeq(s, 1, at - 1), SubSeq(s, at + Len(p), Len(s))>>

\* str::split(p): the pieces between the occurrences of p (never empty)
RECURSIVE Split(_, _)
Split(s, p) ==
    LET at == Find(s, p)
    IN IF at = 0 THEN <<s>>
       ELSE <<SubSeq(s, 1, at - 1)>> \o Split(SubSeq(s, at + Len(p), Len(s)), p)

IsSpace(c) == c \in {" ", "\t"}

\* str::trim
RECURSIVE TrimStart(_)
TrimStart(s) ==
    IF s # <<>> /\ IsSpace(Head(s)) THEN TrimStart(Tail(s)) ELSE s

RECURSIVE TrimEnd(_)
TrimEnd(s) ==
    IF s # <<>> /\ IsSpace(s[Len(s)]) THEN TrimEnd(SubSeq(s, 1, Len(s) - 1)) ELSE s

Trim(s) == TrimEnd(TrimStart(s))

\* str::replace(from, to) for a one-character pattern; to may be empty
RECURSIVE Replace(_, _, _)
Replace(s, from, to) ==
    IF s = <<>> THEN <<>>
    ELSE (IF Head(s) = from THEN to ELSE <<Head(s)>>) \o Replace(Tail(s), from, to)

Last(q) == q[Len(q)]

\* the characters of the model in ASCII order, for str's Ord
Alphabet ==
    <<"\t", " ", "#", "+", ",", "-", ".", "/",
      "0", "1", "2", "3", "4", "5", "6", "7", "8", "9", ":", "_",
      "a", "b", "c", "d", "e", "f", "g", "h", "i", "j", "k", "l", "m",
      "n", "o", "p", "q", "r", "s", "t", "u", "v", "w", "x", "y", "z">>

Ord(c) == CHOOSE i \in 1..Len(Alphabet) : Alphabet[i] = c

\* str's Ord: lexicographic on bytes
RECURSIVE StrLess(_, _)
StrLess(a, b) ==
    IF b = <<>> THEN FALSE
    ELSE IF a = <<>> THEN TRUE
    ELSE IF Head(a) = Head(b) THEN StrLess(Tail(a), Tail(b))
    ELSE Ord(Head(a)) < Ord(Head(b))

\* Vec::sort of a deduplicated collection of strings
RECURSIVE SortStrings(_)
SortStrings(S) ==
    IF S = {} THEN <<>>
    ELSE LET m == CHOOSE x \in S : \A y \in S \ {x} : StrLess(x, y)
         IN <<m>> \o SortStrings(S \ {m})

Range(q) == {q[i] : i \in 1..Len(q)}

\* q rotated to start at its element i
Rotate(q, i) == SubSeq(q, i, Len(q)) \o SubSeq(q, 1, i - 1)

Reverse(q) == [i \in 1..Len(q) |-> q[Len(q) + 1 - i]]

\* the orders in which a HashMap with key set S is iterated in the model: the
\* rotations of the sorted keys and of the reversed sorted keys. Every key comes
\* first in some order and every two keys come in both relative orders; for up
\* to three keys these are all the permutations.
Orders(S) ==
    IF S = {} THEN {<<>>}
    ELSE {Rotate(SortStrings(S), i) : i \in 1..Cardinality(S)}
         \cup {Rotate(Reverse(SortStrings(S)), i) : i \in 1..Cardinality(S)}

(***************************************************************************)
(* Program constants (kerman.rs).                                          *)
(***************************************************************************)
S_KERNEL == <<"k", "e", "r", "n", "e", "l", "/">>
S_SLASH_KERNEL == <<"/">> \o S_KERNEL
S_KO == <<".", "k", "o">>
S_FILENAME == <<"f", "i", "l", "e", "n", "a", "m", "e", ":", "/">>

(***************************************************************************)
(* KernelInfo::get_fext and KernelInfo::load_deps.                         *)
(***************************************************************************)
\* Path::file_name: the last normal component; <<>> (None) when the path is
\* empty, is the root, or ends in "..". Empty and "." components are skipped.
Components(p) == SelectSeq(Split(p, <<"/">>), LAMBDA c : c # <<>> /\ c # <<".">>)

file_name(p) ==
    LET c == Components(p)
    IN IF c = <<>> \/ Last(c) = <<".", ".">> THEN <<>> ELSE <<Last(c)>>

\* get_fext(fname) for fname = Some(f): ".ko" followed by what follows the last ".ko"
get_fext(f) ==
    LET sp == RSplitOnce(f, S_KO)
    IN S_KO \o (IF sp = <<>> THEN <<>> ELSE sp[2])

\* the index entry of one dependency: x.split('/').last().split_once('.').0 ;
\* <<>> (None) when the last component holds no '.'
dep_idx(x) ==
    LET sp == SplitOnce(Last(Split(x, <<"/">>)), <<".">>)
    IN IF sp = <<>> THEN <<>> ELSE <<sp[1]>>

\* one step of the loop of load_deps over the lines of the descriptor
load_line(k, line) ==
    LET sl == SplitOnce(line, <<":">>)
    IN
    IF k.st # "ok" \/ sl = <<>> THEN k
    ELSE LET modpath == Trim(sl[1])
             moddeps == Trim(sl[2])
             deps    == IF moddeps = <<>> THEN <<>> ELSE Split(moddeps, <<" ">>)
         IN IF k._ext = <<>> /\ file_name(modpath) = <<>> THEN [k EXCEPT !.st = "panic"]
            ELSE IF \E i \in 1..Len(deps) : dep_idx(deps[i]) = <<>>
                 THEN [k EXCEPT !.st = "panic"]
            ELSE [k EXCEPT
                    !._ext = IF k._ext = <<>> THEN get_fext(file_name(modpath)[1]) ELSE @,
                    !.deplist = [m \in DOMAIN @ \cup {modpath} |->
                                    IF m = modpath THEN deps ELSE @[m]],
                    !.lookup_deplist = @ \cup {dep_idx(deps[i])[1] : i \in 1..Len(deps)}]

RECURSIVE load_lines(_, _)
load_lines(k, lines) ==
    IF lines = <<>> THEN k ELSE load_lines(load_line(k, Head(lines)), Tail(lines))

\* load_deps on a fresh KernelInfo k for the directory entry e of its version
load_deps(k, e) ==
    IF k._ext # <<>> THEN k
    ELSE IF ~(e.kind = "dir" /\ e.has_kernel) THEN [k EXCEPT !.is_valid = FALSE]
    ELSE IF ~e.dep_readable THEN [k EXCEPT !.is_valid = TRUE, !.st = "err"]
    ELSE load_lines([k EXCEPT !.is_valid = TRUE], e.dep)

\* the directory entry of a version that does not exist
NoEntry == [kind |-> "none", has_kernel |-> FALSE, dep_readable |-> FALSE, dep |-> <<>>]

EntryOf(kver) == IF kver \in DOMAIN fs THEN fs[kver] ELSE NoEntry

\* KernelInfo::new(rootpath, kver) followed by init()
KernelInfoNew(kver) ==
    load_deps([st |-> "ok", version |-> kver, is_valid |-> FALSE, _ext |-> <<>>,
               deplist |-> <<>>, lookup_deplist |-> {}],
              EntryOf(kver))

is_valid(k) == k.is_valid

is_dep(k, name) == name \in k.lookup_deplist

\* get_disk_modules: every key and every listed dependency, deduplicated, sorted
get_disk_modules(k) ==
    SortStrings(DOMAIN k.deplist \cup UNION {Range(k.deplist[m]) : m \in DOMAIN k.deplist})

(***************************************************************************)
(* The external lookup: Command::new(MOD_INFO_EXE).arg(name).output().     *)
(* "fail": the tool cannot be executed (Err); "badutf8": its output is not *)
(* UTF-8; "out": it prints the same lines for every name; "real": it       *)
(* prints the file of the module whose name equals the requested one, '-'  *)
(* and '_' being the same to it, and nothing for an unknown module.        *)
(***************************************************************************)
S_FIELD == <<"f", "i", "l", "e", "n", "a", "m", "e", ":", " ", " ">>
S_LIB_MODULES == <<"/", "l", "i", "b", "/", "m", "o", "d", "u", "l", "e", "s", "/">>

\* the line modinfo prints for the module file `path` of kernel `kver`
FilenameLine(kver, path) == S_FIELD \o S_LIB_MODULES \o kver \o <<"/">> \o path

\* the name modinfo knows a module file by
ModuleName(path) ==
    Replace(SplitOnce(Last(Split(path, <<"/">>)) \o <<".">>, <<".">>)[1], "-", <<"_">>)

\* the module paths of the descriptor of kernel `kver` (what is installed)
Installed(kver) ==
    {Trim(SplitOnce(EntryOf(kver).dep[i], <<":">>)[1]) :
        i \in {j \in 1..Len(EntryOf(kver).dep) : SplitOnce(EntryOf(kver).dep[j], <<":">>) # <<>>}}

\* stdout of the tool for `name`, a sequence of lines
ModinfoStdout(kver, name) ==
    IF modinfo.kind = "out" THEN modinfo.stdout
    ELSE IF modinfo.kind = "real"
         THEN LET found == {p \in Installed(kver) :
                               ModuleName(p) = Replace(name, "-", <<"_">>)}
              IN IF found = {} THEN <<>>
                 ELSE <<FilenameLine(kver, CHOOSE p \in found :
                                             \A q \in found \ {p} : StrLess(p, q))>>
    ELSE <<>>

(***************************************************************************)
(* KernelInfo::expand_module_name.                                         *)
(* The result holds the returned string (value) and the names the external *)
(* tool was invoked with, in order (lookups).                              *)
(***************************************************************************)
\* "sunrpc" -> "sunrpc.ko"
with_ext(k, name) == IF ~EndsWith(name, k._ext) THEN name \o k._ext ELSE name

\* "sunrpc.ko" -> "/sunrpc.ko" (applied to names that do not start with "kernel/")
with_slash(m_name) == IF ~Contains(m_name, <<"/">>) THEN <<"/">> \o m_name ELSE m_name

\* the normalized name the keys are scanned for
normalized(k, name) ==
    IF StartsWith(with_ext(k, name), S_KERNEL) THEN with_ext(k, name)
    ELSE with_slash(with_ext(k, name))

\* the condition of the scan loop
scan_match(fmodname, m_name, mm_name) ==
    EndsWith(fmodname, m_name) \/ EndsWith(fmodname, mm_name)

\* the scan over self.deplist.keys(): the first key in iteration order that
\* matches, <<>> when the loop ends without a return
scan_keys(order, m_name) ==
    LET mm_name == Replace(m_name, "_", <<"-">>)
        hits == {i \in 1..Len(order) : scan_match(order[i], m_name, mm_name)}
    IN IF hits = {} THEN <<>>
       ELSE <<order[CHOOSE i \in hits : \A j \in hits : i <= j]>>

\* the key a line of the tool's output names, <<>> when it names none
line_key(k, rawline) ==
    LET line == Replace(rawline, " ", <<>>)
    IN IF StartsWith(line, S_FILENAME) /\ Contains(line, S_SLASH_KERNEL)
       THEN LET t_modname == S_KERNEL \o Split(line, S_SLASH_KERNEL)[2]
            IN IF t_modname \in DOMAIN k.deplist THEN <<t_modname>> ELSE <<>>
       ELSE <<>>

\* the loop over data.lines(): the key of the first line that names one
RECURSIVE lines_key(_, _)
lines_key(k, lines) ==
    IF lines = <<>> THEN <<>>
    ELSE LET found == line_key(k, Head(lines))
         IN IF found # <<>> THEN found ELSE lines_key(k, Tail(lines))

\* the tail of expand_module_name: the external lookup, then the name itself
lookup_tier(k, name) ==
    LET found == lines_key(k, ModinfoStdout(k.version, name))
    IN IF modinfo.kind \in {"fail", "badutf8"}
       THEN [st |-> "panic", value |-> <<>>, lookups |-> <<name>>]
       ELSE IF found # <<>>
            THEN [st |-> "ok", value |-> found[1], lookups |-> <<name>>]
       ELSE [st |-> "ok", value |-> name, lookups |-> <<name>>]

expand_module_name(k, order, name) ==
    LET m_name == with_ext(k, name)
        found  == scan_keys(order, with_slash(m_name))
    IN IF ~StartsWith(m_name, S_KERNEL) /\ found # <<>>
       THEN [st |-> "ok", value |-> found[1], lookups |-> <<>>]
       ELSE lookup_tier(k, name)

(***************************************************************************)
(* KernelInfo::get_mod_dep and KernelInfo::get_deps_for.                   *)
(* An accumulator holds the HashSet mods, the number of get_mod_dep frames *)
(* entered (calls) and the status; depth is the number of nested frames.   *)
(***************************************************************************)
RECURSIVE get_mod_dep(_, _, _, _)
RECURSIVE mod_dep_inner(_, _, _, _, _)
RECURSIVE mod_dep_outer(_, _, _, _, _)

\* mod_dep_inner without the recursive call: the dependencies of a dependency
\* are inserted and not entered
mod_dep_inner_shallow(k, d_mdeps, j, acc, depth) ==
    IF acc.st # "ok" THEN acc ELSE [acc EXCEPT !.mods = @ \cup Range(d_mdeps)]

\* for d_dep in d_mdeps { mods.insert(d_dep); self.get_mod_dep(d_dep, mods) }
mod_dep_inner(k, d_mdeps, j, acc, depth) ==
    IF acc.st # "ok" \/ j > Len(d_mdeps) THEN acc
    ELSE mod_dep_inner(k, d_mdeps, j + 1,
            get_mod_dep(k, d_mdeps[j], [acc EXCEPT !.mods = @ \cup {d_mdeps[j]}], depth + 1),
            depth)

\* for mdep in mdeps { mods.insert(mdep); ... self.deplist.get(mdep).unwrap() ... }
mod_dep_outer(k, mdeps, i, acc, depth) ==
    IF acc.st # "ok" \/ i > Len(mdeps) THEN acc
    ELSE IF mdeps[i] \notin DOMAIN k.deplist
         THEN [acc EXCEPT !.mods = @ \cup {mdeps[i]}, !.st = "panic"]
    ELSE mod_dep_outer(k, mdeps, i + 1,
            mod_dep_inner(k, k.deplist[mdeps[i]], 1,
                          [acc EXCEPT !.mods = @ \cup {mdeps[i]}], depth),
            depth)

get_mod_dep(k, name, acc, depth) ==
    IF depth > MaxDepth THEN [acc EXCEPT !.st = "overflow"]
    ELSE IF name \notin DOMAIN k.deplist THEN [acc EXCEPT !.st = "panic", !.calls = @ + 1]
    ELSE mod_dep_outer(k, k.deplist[name], 1, [acc EXCEPT !.calls = @ + 1], depth)

\* for v in mod_deps { r_deps.push(v) }: a Vec holding each element of the
\* HashSet once, in the set's order; kept as element -> number of occurrences
r_deps(mod_deps) == [v \in mod_deps |-> 1]

\* one iteration of the loop of get_deps_for over names
deps_for_name(k, order, t, kmodname) ==
    IF t.st # "ok" THEN t
    ELSE LET r == expand_module_name(k, order, kmodname)
             g == get_mod_dep(k, r.value, [st |-> "ok", mods |-> {}, calls |-> 0], 1)
         IN IF r.st # "ok"
            THEN [t EXCEPT !.st = r.st, !.lookups = @ \o r.lookups]
            ELSE IF ~Contains(r.value, <<"/">>)
                 THEN [t EXCEPT !.lookups = @ \o r.lookups]
            ELSE IF g.st # "ok"
                 THEN [t EXCEPT !.st = g.st, !.lookups = @ \o r.lookups,
                                !.calls = @ + g.calls]
            ELSE [t EXCEPT
                    !.lookups = @ \o r.lookups,
                    !.calls = @ + g.calls,
                    !.mod_tree = [m \in DOMAIN @ \cup {r.value} |->
                                    IF m = r.value THEN r_deps(g.mods) ELSE @[m]]]

RECURSIVE deps_for_names(_, _, _, _)
deps_for_names(k, order, t, names) ==
    IF names = <<>> THEN t
    ELSE deps_for_names(k, order, deps_for_name(k, order, t, Head(names)), Tail(names))

get_deps_for(k, order, names) ==
    deps_for_names(k, order,
                   [st |-> "ok", mod_tree |-> <<>>, lookups |-> <<>>, calls |-> 0],
                   names)

(***************************************************************************)
(* get_kernel_infos (lib.rs). The root file system is fixed; dirs is the   *)
(* order in which read_dir yields the entries of <root>/lib/modules.       *)
(***************************************************************************)
\* kernels_push without the test of is_valid
kernels_push_all(kernels, k) == Append(kernels, k)

\* if kinfo.is_valid() { kernels.push(kinfo) }
kernels_push(kernels, k) == IF is_valid(k) THEN Append(kernels, k) ELSE kernels

\* one iteration of the loop over read_dir
kernel_infos_step(acc, kver) ==
    IF acc.st # "ok" \/ EntryOf(kver).kind # "dir" THEN acc
    ELSE LET k == KernelInfoNew(kver)
         IN IF k.st # "ok" THEN [acc EXCEPT !.st = k.st]
            ELSE [acc EXCEPT !.kernels = kernels_push(@, k)]

RECURSIVE kernel_infos_loop(_, _)
kernel_infos_loop(acc, dirs) ==
    IF dirs = <<>> THEN acc
    ELSE kernel_infos_loop(kernel_infos_step(acc, Head(dirs)), Tail(dirs))

get_kernel_infos(dirs) == kernel_infos_loop([st |-> "ok", kernels |-> <<>>], dirs)

(***************************************************************************)
(* lsmod (modinfo.rs). mem_size and mem_offset are usize (64 bits) and are *)
(* kept as numerals: the digits of the value without sign and leading      *)
(* zeros. instances is u8 and is kept as a number.                         *)
(***************************************************************************)
DecDigits == <<"0", "1", "2", "3", "4", "5", "6", "7", "8", "9">>
HexDigits == DecDigits \o <<"a", "b", "c", "d", "e", "f">>

\* usize::MAX in decimal
S_USIZE_MAX ==
    <<"1", "8", "4", "4", "6", "7", "4", "4", "0", "7",
      "3", "7", "0", "9", "5", "5", "1", "6", "1", "5">>

\* the number of hexadecimal digits of usize::MAX
UsizeHexDigits == 16
\* u8::MAX
U8Max == 255

\* the digits a number is parsed from: an optional '+', then one digit or more;
\* <<>> when the text is no number of the radix
digits_of(s, radix_digits) ==
    LET body == IF s # <<>> /\ Head(s) = "+" THEN Tail(s) ELSE s
    IN IF body = <<>> \/ \E i \in 1..Len(body) : body[i] \notin Range(radix_digits)
       THEN <<>> ELSE <<body>>

\* the numeral of a digit string: its leading zeros dropped
RECURSIVE numeral(_)
numeral(d) == IF Len(d) > 1 /\ Head(d) = "0" THEN numeral(Tail(d)) ELSE d

\* the value of a digit
digit_value(c) == (CHOOSE i \in 1..Len(HexDigits) : HexDigits[i] = c) - 1

\* the value of a decimal numeral
RECURSIVE dec_value(_)
dec_value(d) ==
    IF d = <<>> THEN 0 ELSE 10 * dec_value(SubSeq(d, 1, Len(d) - 1)) + digit_value(Last(d))

\* numerals of equal length compare as strings
numeral_leq(a, b) == Len(a) < Len(b) \/ (Len(a) = Len(b) /\ ~StrLess(b, a))

\* str::parse::<usize>: <<numeral>>, or <<>> for Err
parse_usize(s) ==
    LET d == digits_of(s, DecDigits)
    IN IF d = <<>> \/ ~numeral_leq(numeral(d[1]), S_USIZE_MAX) THEN <<>>
       ELSE <<numeral(d[1])>>

\* usize::from_str_radix(s, 0x10): <<numeral>>, or <<>> for Err
parse_usize_hex(s) ==
    LET d == digits_of(s, HexDigits)
    IN IF d = <<>> \/ Len(numeral(d[1])) > UsizeHexDigits THEN <<>>
       ELSE <<numeral(d[1])>>

\* str::parse::<u8>: <<value>>, or <<>> for Err
parse_u8(s) ==
    LET d == digits_of(s, DecDigits)
    IN IF d = <<>> \/ Len(numeral(d[1])) > 3 \/ dec_value(numeral(d[1])) > U8Max THEN <<>>
       ELSE <<dec_value(numeral(d[1]))>>

\* str::strip_suffix / str::strip_prefix: <<rest>>, or <<>> for None
strip_suffix(s, p) == IF EndsWith(s, p) THEN <<SubSeq(s, 1, Len(s) - Len(p))>> ELSE <<>>
strip_prefix(s, p) == IF StartsWith(s, p) THEN <<SubSeq(s, Len(p) + 1, Len(s))>> ELSE <<>>

\* the dependencies field: <<list>>, or <<>> when unwrap panics
parse_dependencies(f) ==
    IF f = <<"-">> THEN <<(<<>>)>>
    ELSE IF strip_suffix(f, <<",">>) = <<>> THEN <<>>
    ELSE <<Split(strip_suffix(f, <<",">>)[1], <<",">>)>>

\* the offset field: <<numeral>>, or <<>> when an unwrap panics
parse_offset(f) ==
    IF strip_prefix(f, <<"0", "x">>) = <<>> THEN <<>>
    ELSE parse_usize_hex(strip_prefix(f, <<"0", "x">>)[1])

\* one iteration of the loop of lsmod over the lines of /proc/modules
lsmod_line(acc, line) ==
    LET mod_data == Split(line, <<" ">>)
    IN IF acc.st # "ok" THEN acc
       ELSE IF Len(mod_data) # 6 THEN [acc EXCEPT !.st = "exit"]
       ELSE IF parse_usize(mod_data[2]) = <<>> \/ parse_u8(mod_data[3]) = <<>>
               \/ parse_dependencies(mod_data[4]) = <<>> \/ parse_offset(mod_data[6]) = <<>>
            THEN [acc EXCEPT !.st = "panic"]
       ELSE [acc EXCEPT !.curr_mods = Append(@,
                [name |-> mod_data[1],
                 mem_size |-> parse_usize(mod_data[2])[1],
                 instances |-> parse_u8(mod_data[3])[1],
                 dependencies |-> parse_dependencies(mod_data[4])[1],
                 mem_offset |-> parse_offset(mod_data[6])[1]])]

RECURSIVE lsmod_lines(_, _)
lsmod_lines(acc, lines) ==
    IF lines = <<>> THEN acc ELSE lsmod_lines(lsmod_line(acc, Head(lines)), Tail(lines))

\* lsmod() on the content pm of /proc/modules
lsmod(pm) ==
    IF ~pm.readable THEN [st |-> "exit", curr_mods |-> <<>>]
    ELSE lsmod_lines([st |-> "ok", curr_mods |-> <<>>], pm.lines)

\* KModuleTree::get_loaded_modules (moddeps.rs): the names of lsmod()
get_loaded_modules(pm) ==
    [st |-> lsmod(pm).st,
     value |-> [i \in 1..Len(lsmod(pm).curr_mods) |-> lsmod(pm).curr_mods[i].name]]

(***************************************************************************)
(* The descriptors (modules.dep) the model is run on.                      *)
(***************************************************************************)
Stems == <<"a", "b", "c", "d", "e", "f">>

\* kernel/<stem>.ko
Mod(i) == S_KERNEL \o <<Stems[i]>> \o S_KO

RECURSIVE JoinDeps(_)
JoinDeps(deps) == IF deps = <<>> THEN <<>> ELSE <<" ">> \o Head(deps) \o JoinDeps(Tail(deps))

\* the record "<path>: <dep> <dep> ..."
Rec(path, deps) == path \o <<":">> \o JoinDeps(deps)

\* the dependencies of module i in the graph with edge set E, in module order
RECURSIVE DepsOf(_, _, _)
DepsOf(i, j, E) ==
    IF j > Len(Stems) THEN <<>>
    ELSE (IF <<i, j>> \in E THEN <<Mod(j)>> ELSE <<>>) \o DepsOf(i, j + 1, E)

\* the descriptor of the graph on modules 1..n with edge set E
Graph(n, E) == [i \in 1..n |-> Rec(Mod(i), DepsOf(i, 1, E))]

\* every acyclic graph on MaxMods modules whose edges lead to later modules
AcyclicDescriptors ==
    {Graph(MaxMods, E) : E \in SUBSET {e \in (1..MaxMods) \X (1..MaxMods) : e[1] < e[2]}}

\* kernel/<dir>/<file>
In(dir, file) == S_KERNEL \o dir \o <<"/">> \o file

F_SUN_RPC == <<"s", "_", "r", ".", "k", "o">>
F_SUN_DASH == <<"s", "-", "r", ".", "k", "o">>
F_MIXED == <<"s", "-", "r", "_", "x", ".", "k", "o">>
F_B_ZST == <<"b", ".", "k", "o", ".", "z", "s", "t">>
F_C_ZST == <<"c", ".", "k", "o", ".", "z", "s", "t">>
F_A_KO == <<"a", ".", "k", "o">>
F_B_KO == <<"b", ".", "k", "o">>
P_EXTRA_A == <<"e", "x", "t", "r", "a", "/">> \o F_A_KO

\* {A: "B C", B: "D", C: "", D: ""}
D_Closure == Graph(4, {<<1, 2>>, <<1, 3>>, <<2, 4>>})
\* {A: "B C", B: "D", C: "D", D: ""}
D_Diamond == Graph(4, {<<1, 2>>, <<1, 3>>, <<2, 4>>, <<3, 4>>})
\* a chain of five modules
D_Chain == Graph(5, {<<1, 2>>, <<2, 3>>, <<3, 4>>, <<4, 5>>})
\* a module that depends on itself
D_SelfDep == Graph(2, {<<1, 1>>, <<1, 2>>})
\* a cycle of two modules, entered from a third
D_Cycle == Graph(3, {<<1, 2>>, <<2, 3>>, <<3, 2>>})
\* a dependency that is no record of its own
D_Dangling == <<Rec(Mod(1), <<Mod(2)>>)>>
\* a dash-spelled module and one that depends on it; a line without ':'
D_Dash == <<<<"#", " ", "x">>,
            Rec(In(<<"n">>, F_SUN_DASH), <<>>),
            Rec(In(<<"n">>, F_A_KO), <<In(<<"n">>, F_SUN_DASH)>>)>>
\* the same module name spelled with '_' in one directory and '-' in another
D_Both == <<Rec(In(<<"x">>, F_SUN_DASH), <<>>), Rec(In(<<"y">>, F_SUN_RPC), <<>>)>>
\* a mixed-delimiter module name
D_Mixed == <<Rec(In(<<"n">>, F_MIXED), <<>>), Rec(In(<<"n">>, F_A_KO), <<In(<<"n">>, F_MIXED)>>)>>
\* the same file name in two directories
D_Dup == <<Rec(In(<<"x">>, F_A_KO), <<In(<<"x">>, F_B_KO)>>),
           Rec(In(<<"y">>, F_A_KO), <<>>),
           Rec(In(<<"x">>, F_B_KO), <<>>)>>
\* compressed modules: kernel/a/b.ko.zst first
D_Zst == <<Rec(In(<<"a">>, F_B_ZST), <<>>), Rec(In(<<"a">>, F_C_ZST), <<In(<<"a">>, F_B_ZST)>>)>>
\* a record without ".ko" before kernel/a/b.ko.zst
D_NoKoFirst == <<Rec(In(<<"a">>, <<"r">>), <<>>), Rec(In(<<"a">>, F_B_ZST), <<>>)>>
\* a module outside kernel/ whose path is the end of a path inside it
D_Extra == <<Rec(P_EXTRA_A, <<>>), Rec(S_KERNEL \o P_EXTRA_A, <<Mod(2)>>), Rec(Mod(2), <<>>)>>
\* a descriptor without records
D_Empty == <<>>
\* two spaces between two dependencies
D_TwoSpaces == <<Mod(1) \o <<":", " ">> \o Mod(2) \o <<" ", " ">> \o Mod(3),
                 Rec(Mod(2), <<>>), Rec(Mod(3), <<>>)>>
\* a module file in no directory
D_Flat == <<Rec(F_A_KO, <<>>), Rec(Mod(2), <<F_A_KO>>)>>

Descriptors ==
    AcyclicDescriptors
    \cup {D_Closure, D_Diamond, D_Chain, D_SelfDep, D_Cycle, D_Dangling, D_Dash, D_Both,
          D_Mixed, D_Dup, D_Zst, D_NoKoFirst, D_Extra, D_Empty, D_TwoSpaces, D_Flat}

\* the kernel version of the model, and a version that is not installed
V1 == <<"6">>
V_MISSING == <<"0">>

\* a version directory with a kernel subdirectory and the descriptor dep
ValidEntry(dep) == [kind |-> "dir", has_kernel |-> TRUE, dep_readable |-> TRUE, dep |-> dep]

(***************************************************************************)
(* The names a caller asks for.                                            *)
(***************************************************************************)
\* the file stem of a path: "kernel/n/s-r.ko" -> "s-r"
Stem(path) == SplitOnce(Last(Split(path, <<"/">>)) \o <<".">>, <<".">>)[1]

N_UNKNOWN == <<"z", "z">>
N_PARTIAL == <<"n", "/", "z", "z">>
N_KERNEL_UNKNOWN == S_KERNEL \o <<"z", "z", ".", "k", "o">>
N_SUN_RPC == <<"s", "_", "r">>
N_MIXED == <<"s", "_", "r", "_", "x">>

\* every key, every key's stem, every key's file name, and names of no module
Names(k) ==
    DOMAIN k.deplist
    \cup {Stem(m) : m \in DOMAIN k.deplist}
    \cup {Last(Split(m, <<"/">>)) : m \in DOMAIN k.deplist}
    \cup {N_UNKNOWN, N_PARTIAL, N_KERNEL_UNKNOWN, N_SUN_RPC, N_MIXED, P_EXTRA_A}

\* the short names is_dep is asked about
ShortNames(k) == {Stem(m) : m \in DOMAIN k.deplist} \cup {N_UNKNOWN}

\* the names of the requests of get_deps_for
RequestNames(k) ==
    {Stem(m) : m \in DOMAIN k.deplist}
    \cup {m \in DOMAIN k.deplist : \A o \in DOMAIN k.deplist \ {m} : StrLess(m, o)}
    \cup {N_UNKNOWN, N_PARTIAL, N_KERNEL_UNKNOWN}

\* the requests of get_deps_for: up to MaxReq distinct names, in sorted order
Requests(k) ==
    {SortStrings(S) : S \in {T \in SUBSET RequestNames(k) : Cardinality(T) <= MaxReq}}

\* the behaviours of the external tool
ModinfoBehaviours ==
    {[kind |-> "fail", stdout |-> <<>>],
     [kind |-> "real", stdout |-> <<>>],
     [kind |-> "out", stdout |-> <<>>],
     [kind |-> "out", stdout |-> <<<<"n", "a", "m", "e", ":", " ", "z">>,
                                   FilenameLine(V1, N_KERNEL_UNKNOWN),
                                   FilenameLine(V1, Mod(1))>>]}

\* /proc/modules of a system without loaded modules
NoModules == [readable |-> TRUE, lines |-> <<>>]

(***************************************************************************)
(* The life of one KernelInfo: new, then queries.                          *)
(***************************************************************************)
Init ==
    /\ fs \in {[v \in {V1} |-> ValidEntry(d)] : d \in Descriptors}
    /\ modinfo \in ModinfoBehaviours
    /\ proc_modules = NoModules
    /\ kinfo = None
    /\ keyorder = <<>>
    /\ ret = None

\* let kinfo = KernelInfo::new(root, kver)
New(kver) ==
    /\ kinfo = None /\ ret = None
    /\ LET k == KernelInfoNew(kver)
       IN IF k.st = "ok"
          THEN /\ kinfo' = k
               /\ keyorder' \in Orders(DOMAIN k.deplist)
               /\ ret' = None
          ELSE /\ ret' = [st |-> k.st, op |-> "new", version |-> kver]
               /\ UNCHANGED <<kinfo, keyorder>>
    /\ UNCHANGED <<fs, modinfo, proc_modules>>

\* kinfo.expand_module_name(name), as get_deps_for calls it
ExpandModuleName ==
    /\ kinfo # None /\ ret = None
    /\ \E name \in Names(kinfo) :
          ret' = [op |-> "expand_module_name", name |-> name]
                 @@ expand_module_name(kinfo, keyorder, name)
    /\ UNCHANGED <<fs, modinfo, proc_modules, kinfo, keyorder>>

\* kinfo.get_deps_for(names)
GetDepsFor ==
    /\ kinfo # None /\ ret = None
    /\ \E names \in Requests(kinfo) :
          ret' = [op |-> "get_deps_for", names |-> names]
                 @@ get_deps_for(kinfo, keyorder, names)
    /\ UNCHANGED <<fs, modinfo, proc_modules, kinfo, keyorder>>

\* kinfo.get_disk_modules()
GetDiskModules ==
    /\ kinfo # None /\ ret = None
    /\ ret' = [op |-> "get_disk_modules", st |-> "ok", value |-> get_disk_modules(kinfo)]
    /\ UNCHANGED <<fs, modinfo, proc_modules, kinfo, keyorder>>

\* kinfo.is_dep(name)
IsDep ==
    /\ kinfo # None /\ ret = None
    /\ \E name \in ShortNames(kinfo) :
          ret' = [op |-> "is_dep", st |-> "ok", name |-> name, value |-> is_dep(kinfo, name)]
    /\ UNCHANGED <<fs, modinfo, proc_modules, kinfo, keyorder>>

\* the caller drops the value a call returned; a panic ends the process
Consume ==
    /\ ret # None /\ ret.st \in {"ok", "err"}
    /\ ret' = None
    /\ UNCHANGED <<fs, modinfo, proc_modules, kinfo, keyorder>>

Next ==
    \/ \E kver \in DOMAIN fs \cup {V_MISSING} : New(kver)
    \/ ExpandModuleName
    \/ GetDepsFor
    \/ GetDiskModules
    \/ IsDep
    \/ Consume

Spec == Init /\ [][Next]_vars

(***************************************************************************)
(* The installed kernels: <root>/lib/modules holds files, version          *)
(* directories with and without a kernel subdirectory, with a readable, an *)
(* unreadable or a malformed descriptor.                                   *)
(***************************************************************************)
Versions == <<(<<"5">>), (<<"6">>), (<<"7">>), (<<"8">>)>>

DirEntries ==
    {[kind |-> "file", has_kernel |-> FALSE, dep_readable |-> FALSE, dep |-> <<>>],
     [kind |-> "dir", has_kernel |-> FALSE, dep_readable |-> FALSE, dep |-> <<>>],
     [kind |-> "dir", has_kernel |-> FALSE, dep_readable |-> TRUE, dep |-> D_Closure],
     [kind |-> "dir", has_kernel |-> TRUE, dep_readable |-> FALSE, dep |-> <<>>],
     ValidEntry(D_Dash),
     ValidEntry(D_TwoSpaces),
     ValidEntry(D_Empty)}

InitKernels ==
    /\ fs \in [{Versions[i] : i \in 1..MaxVersions} -> DirEntries]
    /\ modinfo = [kind |-> "out", stdout |-> <<>>]
    /\ proc_modules = NoModules
    /\ kinfo = None
    /\ keyorder = <<>>
    /\ ret = None

\* get_kernel_infos(rootfs), for the root whose /lib/modules is fs
GetKernelInfos ==
    /\ ret = None
    /\ \E dirs \in Orders(DOMAIN fs) :
          ret' = [op |-> "get_kernel_infos"] @@ get_kernel_infos(dirs)
    /\ UNCHANGED <<fs, modinfo, proc_modules, kinfo, keyorder>>

NextKernels ==
    \/ \E kver \in DOMAIN fs \cup {V_MISSING} : New(kver)
    \/ GetKernelInfos
    \/ GetDiskModules
    \/ IsDep
    \/ Consume

SpecKernels == InitKernels /\ [][NextKernels]_vars

(***************************************************************************)
(* The live module table: /proc/modules is unreadable or holds up to       *)
(* MaxLines lines.                                                         *)
(***************************************************************************)
S_SUNRPC == <<"s", "u", "n", "r", "p", "c">>
S_EXT4 == <<"e", "x", "t", "4">>
S_OFFSET_A == <<"0", "x", "f", "f", "f", "f", "f", "f", "f", "f", "c", "0", "a", "1", "2", "0", "0", "0">>
S_OFFSET_B == <<"0", "x", "f", "f", "f", "f", "f", "f", "f", "f", "c", "0", "b", "0", "0", "0", "0", "0">>
S_OFFSET_WIDE == <<"0", "x", "1", "0", "0", "0", "0", "0", "0", "0", "0", "0", "0", "0", "0", "0", "0", "0", "0">>
S_SIZE_WIDE ==
    <<"1", "8", "4", "4", "6", "7", "4", "4", "0", "7",
      "3", "7", "0", "9", "5", "5", "1", "6", "1", "6">>

RECURSIVE JoinFields(_)
JoinFields(f) ==
    IF Len(f) = 1 THEN Head(f) ELSE Head(f) \o <<" ">> \o JoinFields(Tail(f))

ProcLines ==
    {\* sunrpc 69632 2 nfsd,lockd, 0 0xffffffffc0a12000
     JoinFields(<<S_SUNRPC, <<"6", "9", "6", "3", "2">>, <<"2">>,
                  <<"n", "f", "s", "d", ",", "l", "o", "c", "k", "d", ",">>, <<"0">>, S_OFFSET_A>>),
     \* ext4 761856 1 - 0 0xffffffffc0b00000
     JoinFields(<<S_EXT4, <<"7", "6", "1", "8", "5", "6">>, <<"1">>, <<"-">>, <<"0">>, S_OFFSET_B>>),
     \* a reference count of u8::MAX, and one above it
     JoinFields(<<(<<"a">>), <<"1">>, <<"2", "5", "5">>, <<"-">>, <<"0">>, <<"0", "x", "0">>>>),
     JoinFields(<<(<<"a">>), <<"1">>, <<"2", "5", "6">>, <<"-">>, <<"0">>, <<"0", "x", "0">>>>),
     \* leading zeros
     JoinFields(<<(<<"b">>), <<"0", "0", "7">>, <<"0", "1">>, <<"a", ",">>, <<"0">>,
                  <<"0", "x", "0", "0", "f", "f">>>>),
     \* a leading '+'
     JoinFields(<<(<<"b">>), <<"+", "7">>, <<"+", "1">>, <<"-">>, <<"0">>, <<"0", "x", "0">>>>),
     \* a size of usize::MAX, and one above it
     JoinFields(<<(<<"c">>), S_USIZE_MAX, <<"0">>, <<"-">>, <<"0">>, <<"0", "x", "0">>>>),
     JoinFields(<<(<<"c">>), S_SIZE_WIDE, <<"0">>, <<"-">>, <<"0">>, <<"0", "x", "0">>>>),
     \* an offset of seventeen hexadecimal digits
     JoinFields(<<(<<"c">>), <<"1">>, <<"0">>, <<"-">>, <<"0">>, S_OFFSET_WIDE>>),
     \* seven fields
     JoinFields(<<(<<"d">>), <<"1">>, <<"0">>, <<"-">>, <<"0">>, <<"0", "x", "0">>, <<"o", "e">>>>),
     \* dependents without the closing comma
     JoinFields(<<(<<"d">>), <<"1">>, <<"1">>, <<"a">>, <<"0">>, <<"0", "x", "0">>>>),
     \* an offset without "0x"
     JoinFields(<<(<<"d">>), <<"1">>, <<"0">>, <<"-">>, <<"0">>, <<"f", "f">>>>)}

InitLsmod ==
    /\ fs = [v \in {V1} |-> ValidEntry(D_Dash)]
    /\ modinfo = [kind |-> "out", stdout |-> <<>>]
    /\ proc_modules \in
          {[readable |-> FALSE, lines |-> <<>>]}
          \cup {[readable |-> TRUE, lines |-> l] :
                  l \in UNION {[1..n -> ProcLines] : n \in 0..MaxLines}}
    /\ kinfo = None
    /\ keyorder = <<>>
    /\ ret = None

\* modinfo::lsmod()
Lsmod ==
    /\ ret = None
    /\ ret' = [op |-> "lsmod"] @@ lsmod(proc_modules)
    /\ UNCHANGED <<fs, modinfo, proc_modules, kinfo, keyorder>>

\* KModuleTree::get_loaded_modules()
GetLoadedModules ==
    /\ ret = None
    /\ ret' = [op |-> "get_loaded_modules"] @@ get_loaded_modules(proc_modules)
    /\ UNCHANGED <<fs, modinfo, proc_modules, kinfo, keyorder>>

NextLsmod ==
    \/ Lsmod
    \/ GetLoadedModules
    \/ Consume

SpecLsmod == InitLsmod /\ [][NextLsmod]_vars

(***************************************************************************)
(* Notions the properties are stated with.                                 *)
(***************************************************************************)
Keys == DOMAIN kinfo.deplist

\* the modules reachable from the modules of `from` by one or more dependency edges
RECURSIVE ReachFrom(_, _)
ReachFrom(from, seen) ==
    LET next == UNION {Range(kinfo.deplist[m]) : m \in from \cap Keys}
    IN IF next \subseteq seen THEN seen ELSE ReachFrom(next \ seen, seen \cup next)

Reach(K) == ReachFrom({K}, {})

\* every listed dependency is itself a key
Consistent == \A m \in Keys : Range(kinfo.deplist[m]) \subseteq Keys

Acyclic == \A m \in Keys : m \notin Reach(m)

RECURSIVE SumEdges(_)
SumEdges(S) ==
    IF S = {} THEN 0
    ELSE LET m == CHOOSE x \in S : TRUE IN Len(kinfo.deplist[m]) + SumEdges(S \ {m})

\* the outcome of resolving `name` in the context the caller holds
Resolution(name) == expand_module_name(kinfo, keyorder, name)

\* `name` resolves to a key: the result is a path-qualified key of the index
Resolves(name) ==
    LET r == Resolution(name)
    IN r.st = "ok" /\ r.value \in Keys /\ Contains(r.value, <<"/">>)

\* `name` cannot be resolved: the lookup ran and the result is no key
Unresolvable(name) ==
    LET r == Resolution(name)
    IN r.st = "ok" /\ r.value \notin Keys

\* q without its element i
Without(q, i) == SubSeq(q, 1, i - 1) \o SubSeq(q, i + 1, Len(q))

\* C1: for an acyclic and internally consistent index, get_deps_for maps every
\* key K a requested name resolves to, to exactly the modules reachable from K
\* by one or more dependency edges, each present once; and the call returns
\* when every requested name resolves.
C1_Closure ==
    (kinfo # None /\ ret # None /\ ret.op = "get_deps_for" /\ Consistent /\ Acyclic) =>
        /\ (\A i \in 1..Len(ret.names) : Resolves(ret.names[i])) => ret.st = "ok"
        /\ ret.st = "ok" =>
              \A i \in 1..Len(ret.names) :
                  Resolves(ret.names[i]) =>
                      LET K == Resolution(ret.names[i]).value
                      IN /\ K \in DOMAIN ret.mod_tree
                         /\ DOMAIN ret.mod_tree[K] = Reach(K)
                         /\ \A m \in Reach(K) : ret.mod_tree[K][m] = 1

\* the diamond: D is reached from A through B and through C
C1_Witness ==
    /\ kinfo # None /\ ret # None /\ ret.op = "get_deps_for" /\ ret.st = "ok"
    /\ fs[V1].dep = D_Diamond
    /\ Mod(1) \in DOMAIN ret.mod_tree
    /\ DOMAIN ret.mod_tree[Mod(1)] = {Mod(2), Mod(3), Mod(4)}

\* C2: a name that cannot be resolved to a key is dropped by get_deps_for: the
\* call ends as the call without that name ends, returns the mapping that call
\* returns, and the mapping has no entry for the name.
C2_Dropped ==
    (kinfo # None /\ ret # None /\ ret.op = "get_deps_for") =>
        \A i \in 1..Len(ret.names) :
            Unresolvable(ret.names[i]) =>
                LET rest == get_deps_for(kinfo, keyorder, Without(ret.names, i))
                IN /\ ret.st = rest.st
                   /\ ret.mod_tree = rest.mod_tree
                   /\ ret.names[i] \notin DOMAIN ret.mod_tree

\* C3: expand_module_name returns K for every key K of the index, whatever the
\* external lookup prints.
C3_Idempotent ==
    (kinfo # None /\ ret # None /\ ret.op = "expand_module_name"
        /\ ret.name \in Keys /\ ret.st = "ok") =>
        ret.value = ret.name

\* C4: when some key ends with the normalized name, expand_module_name returns
\* a key that ends with the normalized name itself; a key that matches only
\* with '_' replaced by '-' is returned only when no key ends with the
\* normalized name.
C4_TierOrder ==
    (kinfo # None /\ ret # None /\ ret.op = "expand_module_name" /\ ret.st = "ok"
        /\ \E m \in Keys : EndsWith(m, normalized(kinfo, ret.name))) =>
        /\ ret.value \in Keys
        /\ EndsWith(ret.value, normalized(kinfo, ret.name))

\* the extension the descriptor fixes: what the first record whose module path
\* contains ".ko" holds from ".ko" onward; <<>> when no record contains ".ko"
RECURSIVE FirstKoExt(_)
FirstKoExt(lines) ==
    IF lines = <<>> THEN <<>>
    ELSE LET sl == SplitOnce(Head(lines), <<":">>)
         IN IF sl # <<>> /\ Contains(Trim(sl[1]), S_KO)
            THEN SubSeq(Trim(sl[1]), Find(Trim(sl[1]), S_KO), Len(Trim(sl[1])))
            ELSE FirstKoExt(Tail(lines))

\* the module path of the first record whose module path contains ".ko"
RECURSIVE FirstKoPath(_)
FirstKoPath(lines) ==
    IF lines = <<>> THEN <<>>
    ELSE LET sl == SplitOnce(Head(lines), <<":">>)
         IN IF sl # <<>> /\ Contains(Trim(sl[1]), S_KO) THEN Trim(sl[1])
            ELSE FirstKoPath(Tail(lines))

\* C5: the extension of a context is what the first record whose module path
\* contains ".ko" holds from ".ko" onward, records before it without ".ko" not
\* fixing it; and when that record is kernel/a/b.ko.zst, the bare name "b"
\* resolves to kernel/a/b.ko.zst.
C5_Extension ==
    kinfo # None =>
        /\ kinfo._ext = FirstKoExt(EntryOf(kinfo.version).dep)
        /\ (ret # None /\ ret.op = "expand_module_name" /\ ret.name = <<"b">>
              /\ FirstKoPath(EntryOf(kinfo.version).dep) = In(<<"a">>, F_B_ZST)) =>
                 (ret.st = "ok" => ret.value = In(<<"a">>, F_B_ZST))

\* C8: for an internally consistent index, cyclic or not, get_deps_for returns
\* for every request whose names resolve, having entered get_mod_dep at most
\* once per module and dependency edge for each requested name.
C8_CycleTolerant ==
    (kinfo # None /\ ret # None /\ ret.op = "get_deps_for" /\ Consistent
        /\ \A i \in 1..Len(ret.names) : Resolves(ret.names[i])) =>
        /\ ret.st = "ok"
        /\ ret.calls <= Len(ret.names) * (Cardinality(Keys) + SumEdges(Keys))

\* C9: within one call of expand_module_name the external lookup is invoked at
\* most once, with the name as given, and not at all when some key ends with
\* the normalized name or with its '_'-to-'-' variant.
C9_LookupLast ==
    (kinfo # None /\ ret # None /\ ret.op = "expand_module_name") =>
        /\ Len(ret.lookups) <= 1
        /\ \A i \in 1..Len(ret.lookups) : ret.lookups[i] = ret.name
        /\ (\E m \in Keys :
               scan_match(m, normalized(kinfo, ret.name),
                          Replace(normalized(kinfo, ret.name), "_", <<"-">>)))
           => ret.lookups = <<>>

\* C10: what a name resolves to, and what get_deps_for returns, does not depend
\* on the order in which the keys of the index are scanned.
C10_OrderIndependent ==
    (kinfo # None /\ ret # None) =>
        \A o \in Orders(Keys) :
            /\ ret.op = "expand_module_name" =>
                  /\ expand_module_name(kinfo, o, ret.name).st = ret.st
                  /\ expand_module_name(kinfo, o, ret.name).value = ret.value
            /\ ret.op = "get_deps_for" =>
                  /\ get_deps_for(kinfo, o, ret.names).st = ret.st
                  /\ get_deps_for(kinfo, o, ret.names).mod_tree = ret.mod_tree

\* the version directory of kver holds a kernel subdirectory
HasKernelDir(kver) == EntryOf(kver).kind = "dir" /\ EntryOf(kver).has_kernel

\* C6: for a version whose kernel subdirectory is no directory,
\* KernelInfo::new succeeds, whatever the descriptor is, and gives a context
\* that is not valid and holds no dependency, no dependent name and no disk
\* module; get_kernel_infos returns no such version, and only valid contexts.
C6_InvalidKernel ==
    /\ (ret # None /\ ret.op = "new") => HasKernelDir(ret.version)
    /\ (kinfo # None /\ ~HasKernelDir(kinfo.version)) =>
          /\ ~is_valid(kinfo)
          /\ DOMAIN kinfo.deplist = {}
          /\ kinfo.lookup_deplist = {}
          /\ get_disk_modules(kinfo) = <<>>
          /\ (ret # None /\ ret.op = "get_disk_modules") => ret.value = <<>>
          /\ (ret # None /\ ret.op = "is_dep") => ~ret.value
    /\ (ret # None /\ ret.op = "get_kernel_infos" /\ ret.st = "ok") =>
          \A i \in 1..Len(ret.kernels) :
              /\ is_valid(ret.kernels[i])
              /\ HasKernelDir(ret.kernels[i].version)

\* a version directory without kernel subdirectory, whose descriptor holds
\* records, beside a valid one: the list holds the valid one alone
C6_Witness ==
    /\ ret # None /\ ret.op = "get_kernel_infos" /\ ret.st = "ok"
    /\ Len(ret.kernels) = 1
    /\ \E v \in DOMAIN fs :
          fs[v].kind = "dir" /\ ~fs[v].has_kernel /\ fs[v].dep_readable /\ fs[v].dep # <<>>

\* a line of the live table in the stated formats: six fields, the size and the
\* reference count decimal, the dependents "-" or comma-terminated, the offset
\* hexadecimal after "0x"
IsDigits(f, radix_digits) == f # <<>> /\ \A i \in 1..Len(f) : f[i] \in Range(radix_digits)

WellFormedLine(line) ==
    LET f == Split(line, <<" ">>)
    IN /\ Len(f) = 6
       /\ IsDigits(f[2], DecDigits)
       /\ IsDigits(f[3], DecDigits)
       /\ f[4] = <<"-">> \/ (Len(f[4]) > 1 /\ Last(f[4]) = ",")
       /\ StartsWith(f[6], <<"0", "x">>)
       /\ IsDigits(SubSeq(f[6], 3, Len(f[6])), HexDigits)

\* the record the line stands for
RecordOf(line) ==
    LET f == Split(line, <<" ">>)
    IN [name |-> f[1],
        mem_size |-> numeral(f[2]),
        instances |-> dec_value(numeral(f[3])),
        dependencies |-> IF f[4] = <<"-">> THEN <<>>
                         ELSE Split(SubSeq(f[4], 1, Len(f[4]) - 1), <<",">>),
        mem_offset |-> numeral(SubSeq(f[6], 3, Len(f[6])))]

\* C7: lsmod parses every line in the stated formats into one record holding
\* the values of the line, in line order.
C7_LsmodParses ==
    (ret # None /\ ret.op = "lsmod" /\ proc_modules.readable
        /\ \A i \in 1..Len(proc_modules.lines) : WellFormedLine(proc_modules.lines[i])) =>
        /\ ret.st = "ok"
        /\ Len(ret.curr_mods) = Len(proc_modules.lines)
        /\ \A i \in 1..Len(proc_modules.lines) :
              ret.curr_mods[i] = RecordOf(proc_modules.lines[i])

====
